---- MODULE Spec2Model ----
(***************************************************************************)
(* Counterfactual regret minimisation engine of kuhn-poker-:               *)
(* InfoSet (regret matching, average strategy, to_dict / load_dict), the   *)
(* CFR store (_get_info_set), the tree walk (walk_tree) and the training   *)
(* loop (iterate), modelled from src/__init__.py.                          *)
(*                                                                         *)
(* Numbers: utilities, regrets, cumulative strategies and reach            *)
(* probabilities are integers in every run of the model (terminal          *)
(* utilities and saved dictionaries are drawn from integers and the walk   *)
(* only adds and multiplies them).  The results of the divisions in        *)
(* calculate_strategy and get_average_strategy are exact rationals         *)
(* [num, den] in lowest terms; floating-point rounding is not modelled.    *)
(***************************************************************************)
EXTENDS Integers, Sequences, FiniteSets, TLC

VARIABLES
    game,          \* the game behind create_new_history: [layers, acts, perfect, payoff]
    n_players,     \* CFR.n_players
    epochs,        \* CFR.epochs
    info_sets,     \* CFR.info_sets: key -> InfoSet
    factoryCalls,  \* key -> number of new_info_set() calls made for that key
    nextId,        \* identity given to the next InfoSet object constructed
    pc,            \* "idle" | "walk" | "observe" | "done" | "crashed"
    err,           \* the exception that ended iterate, or "none"
    t,             \* loop variable t of iterate
    i,             \* loop variable i of iterate: the updating player of the walk
    stack,         \* the call stack of walk_tree, innermost frame last
    runs,          \* number of iterate() calls made on this CFR object
    global_step,   \* tracker.add_global_step() calls
    tracked,       \* what the InfoSetTracker recorded last
    checkpoints,   \* experiment.save_checkpoint() calls
    saved,         \* <<d>>: the dictionary d the last to_dict() returned; <<>>: none held
    avgResult      \* <<r>>: what the last direct get_average_strategy() call returned

vars == <<game, n_players, epochs, info_sets, factoryCalls, nextId, pc, err,
          t, i, stack, runs, global_step, tracked, checkpoints, saved,
          avgResult>>

(***************************************************************************)
(* Bounds of the model.                                                    *)
(***************************************************************************)
MaxDepth == 2      \* longest history of a game
MaxEpochs == 2     \* largest configured epochs
MaxPlayers == 2    \* largest configured n_players
MaxRuns == 2       \* iterate() calls on one CFR object
MaxRegret == 2     \* |regret| in a loaded dictionary
MaxCum == 1        \* cumulative strategy in a loaded dictionary

(***************************************************************************)
(* Exact rationals.                                                        *)
(***************************************************************************)
Abs(x) == IF x < 0 THEN -x ELSE x

RECURSIVE GCD(_, _)
GCD(a, b) == IF b = 0 THEN a ELSE GCD(b, a % b)

\* n / d for d > 0, in lowest terms
Frac(n, d) ==
    LET g == GCD(Abs(n), d)
    IN  [num |-> n \div g, den |-> d \div g]

RatMulInt(x, r) == Frac(x * r.num, r.den)

RatAdd(r, s) == Frac(r.num * s.den + s.num * r.den, r.den * s.den)

RatZero == [num |-> 0, den |-> 1]

RatOne == [num |-> 1, den |-> 1]

\* sum(d.values()) of a dictionary with integer values
RECURSIVE SumValues(_)
SumValues(d) ==
    IF DOMAIN d = {} THEN 0
    ELSE LET a == CHOOSE x \in DOMAIN d : TRUE
         IN  d[a] + SumValues([b \in DOMAIN d \ {a} |-> d[b]])

\* the exact sum of a dictionary with rational values
RECURSIVE RatSum(_)
RatSum(d) ==
    IF DOMAIN d = {} THEN RatZero
    ELSE LET a == CHOOSE x \in DOMAIN d : TRUE
         IN  RatAdd(d[a], RatSum([b \in DOMAIN d \ {a} |-> d[b]]))

ToSet(s) == {s[k] : k \in 1..Len(s)}

(***************************************************************************)
(* InfoSet                                                                  *)
(***************************************************************************)
max(r, z) == IF r > z THEN r ELSE z

\* calculate_strategy without the clamp of negative regret
calculate_strategy_unclamped(I) ==
    LET regret_sum == SumValues([a \in DOMAIN I.regret |-> max(I.regret[a], 0)])
    IN  IF regret_sum > 0
        THEN [I EXCEPT !.strategy = [a \in DOMAIN I.regret |-> Frac(I.regret[a], regret_sum)]]
        ELSE [I EXCEPT !.strategy = [a \in DOMAIN I.regret |-> Frac(1, Cardinality(DOMAIN I.regret))]]

\* calculate_strategy dividing by the number of actions in both branches
calculate_strategy_by_count(I) ==
    LET regret == [a \in DOMAIN I.regret |-> max(I.regret[a], 0)]
    IN  [I EXCEPT !.strategy = [a \in DOMAIN regret |->
                                   IF SumValues(regret) > 0
                                   THEN Frac(regret[a], Cardinality(DOMAIN regret))
                                   ELSE Frac(1, Cardinality(DOMAIN regret))]]

\* InfoSet.calculate_strategy: the InfoSet with its strategy recomputed
calculate_strategy(I) ==
    LET regret == [a \in DOMAIN I.regret |-> max(I.regret[a], 0)]
        regret_sum == SumValues(regret)
    IN  IF regret_sum > 0
        THEN [I EXCEPT !.strategy = [a \in DOMAIN regret |-> Frac(regret[a], regret_sum)]]
        ELSE LET count == Cardinality(DOMAIN I.regret)
             IN  [I EXCEPT !.strategy = [a \in DOMAIN regret |-> Frac(1, count)]]

\* InfoSet.__init__ of an InfoSet class whose actions() is acts; id is the
\* identity of the constructed object
InfoSet(key, acts, id) ==
    calculate_strategy(
        [key |-> key, id |-> id, actions |-> acts,
         regret |-> [a \in ToSet(acts) |-> 0],
         cumulative_strategy |-> [a \in ToSet(acts) |-> 0],
         strategy |-> [a \in {} |-> RatZero]])

\* InfoSet.to_dict
to_dict(I) ==
    [key |-> I.key, regret |-> I.regret, average_strategy |-> I.cumulative_strategy]

\* InfoSet.load_dict
load_dict(I, data) ==
    calculate_strategy(
        [I EXCEPT !.regret = data.regret,
                  !.cumulative_strategy = data.average_strategy])

\* get_average_strategy dividing by the number of actions in both branches
get_average_strategy_by_count(I) ==
    LET cum_strategy == [a \in ToSet(I.actions) |->
                            IF a \in DOMAIN I.cumulative_strategy
                            THEN I.cumulative_strategy[a] ELSE 0]
    IN  [a \in DOMAIN cum_strategy |-> Frac(cum_strategy[a], Cardinality(DOMAIN cum_strategy))]

\* InfoSet.get_average_strategy: the returned dictionary
get_average_strategy(I) ==
    LET cum_strategy == [a \in ToSet(I.actions) |->
                            IF a \in DOMAIN I.cumulative_strategy
                            THEN I.cumulative_strategy[a] ELSE 0]
        strategy_sum == SumValues(cum_strategy)
    IN  IF strategy_sum > 0
        THEN [a \in DOMAIN cum_strategy |-> Frac(cum_strategy[a], strategy_sum)]
        ELSE LET count == Cardinality(DOMAIN cum_strategy)
             IN  [a \in DOMAIN cum_strategy |-> Frac(1, count)]

(***************************************************************************)
(* The game behind History: a tree in which every history of length d is   *)
(* of the kind game.layers[d + 1] (a player's decision or a chance event)  *)
(* and every history of length Len(game.layers) is terminal.               *)
(***************************************************************************)
\* P(h) = c: the value player() has at a chance event
Chance == -1

\* the action lists InfoSet.actions() may return (pass / bet)
ActionLists == {<<"p">>, <<"p", "b">>}

PlayerLabels == 0..MaxPlayers

\* what an action adds to the score of the odd players
Payoffs == {[p |-> 1, b |-> -2], [p |-> -1, b |-> 2]}

Games ==
    {g \in [layers : UNION {[1..d -> PlayerLabels \cup {Chance}] : d \in 0..MaxDepth},
            acts : ActionLists,
            perfect : BOOLEAN,
            payoff : Payoffs] :
        \* with a single action per decision every key is its own history
        Len(g.acts) = 1 => g.perfect}

\* History.is_terminal
is_terminal(h) == Len(h) = Len(game.layers)

\* History.player
player(h) == game.layers[Len(h) + 1]

\* History.is_chance
is_chance(h) == player(h) = Chance

\* History.__add__
add(h, a) == Append(h, a)

\* History.info_set_key: the acting player sees the whole history (perfect)
\* or only how many moves were made
info_set_key(h) == IF game.perfect THEN h ELSE [k \in 1..Len(h) |-> "?"]

\* History.new_info_set
new_info_set(h, id) == InfoSet(info_set_key(h), game.acts, id)

RECURSIVE Score(_)
Score(h) ==
    IF h = <<>> THEN 0
    ELSE game.payoff[Head(h)] + Score(Tail(h))

\* History.terminal_utility: zero-sum between odd and even players
terminal_utility(h, p) == IF p % 2 = 1 THEN Score(h) ELSE -Score(h)

\* create_new_history()
create_new_history == <<>>

(***************************************************************************)
(* CFR                                                                      *)
(***************************************************************************)
\* a store with key bound to I
Put(store, key, I) ==
    [k \in DOMAIN store \cup {key} |-> IF k = key THEN I ELSE store[k]]

\* _get_info_set that builds a new InfoSet on every call
get_info_set_always_new(store, calls, id, h) ==
    LET key == info_set_key(h)
    IN  [info_sets |-> Put(store, key, new_info_set(h, id)),
         factoryCalls |-> Put(calls, key, IF key \in DOMAIN calls THEN calls[key] + 1 ELSE 1),
         nextId |-> id + 1,
         returned |-> id]

\* CFR._get_info_set on the store, with the new_info_set() calls counted:
\* the store, the counts and the next identity after the call, and the
\* identity of the returned InfoSet
get_info_set(store, calls, id, h) ==
    LET key == info_set_key(h)
    IN  IF key \notin DOMAIN store
        THEN [info_sets |-> Put(store, key, new_info_set(h, id)),
              factoryCalls |-> Put(calls, key, IF key \in DOMAIN calls THEN calls[key] + 1 ELSE 1),
              nextId |-> id + 1,
              returned |-> id]
        ELSE [info_sets |-> store, factoryCalls |-> calls, nextId |-> id,
              returned |-> store[key].id]

\* a frame of walk_tree(h, i, pi_i, pi_neg_i): its arguments and locals.
\* arg is what was passed as h: a history, or the bound method sample_chance
Frame(arg, pi_i, pi_neg_i) ==
    [h |-> arg, pi_i |-> pi_i, pi_neg_i |-> pi_neg_i,
     at |-> "enter", I |-> -1, a |-> 0, v |-> 0, v_a |-> <<>>]

HistoryArg(h) == [kind |-> "history", seq |-> h]

MethodArg(h) == [kind |-> "sample_chance", seq |-> h]

RootFrame == Frame(HistoryArg(create_new_history), 1, 1)

Top == stack[Len(stack)]

\* the InfoSet a frame's local I refers to
FrameInfoSet(f) == info_sets[info_set_key(f.h.seq)]

\* the exception leaves walk_tree and iterate
Raise(e) ==
    /\ pc' = "crashed"
    /\ err' = e
    /\ stack' = <<>>
    /\ UNCHANGED <<t, i>>

\* walk_tree returns val: to the caller's `v_a[a] = ...; v += ...` when the
\* caller is walk_tree, else to the player loop of iterate
Return(val) ==
    IF Len(stack) > 1
    THEN LET parent == stack[Len(stack) - 1]
             I == FrameInfoSet(parent)
             a == I.actions[parent.a]
         IN  /\ stack' = Append(SubSeq(stack, 1, Len(stack) - 2),
                            [parent EXCEPT !.v_a = Append(@, val),
                                           !.v = @ + val * I.cumulative_strategy[a],
                                           !.a = @ + 1])
             /\ UNCHANGED <<pc, err, t, i>>
    ELSE IF i + 1 < n_players
    THEN /\ i' = i + 1
         /\ stack' = <<RootFrame>>
         /\ UNCHANGED <<pc, err, t>>
    ELSE /\ pc' = "observe"
         /\ stack' = <<>>
         /\ UNCHANGED <<err, t, i>>

Walking == pc = "walk" /\ stack # <<>>

\* walk_tree on something that is no History: h.is_terminal() fails
VisitNonHistory ==
    /\ Walking
    /\ Top.at = "enter"
    /\ Top.h.kind # "history"
    /\ Raise("AttributeError")
    /\ UNCHANGED <<game, n_players, epochs, info_sets, factoryCalls, nextId, runs,
                   global_step, tracked, checkpoints, saved, avgResult>>

\* walk_tree at a terminal history
VisitTerminal ==
    /\ Walking
    /\ Top.at = "enter"
    /\ Top.h.kind = "history"
    /\ is_terminal(Top.h.seq)
    /\ Return(terminal_utility(Top.h.seq, i))
    /\ UNCHANGED <<game, n_players, epochs, info_sets, factoryCalls, nextId, runs,
                   global_step, tracked, checkpoints, saved, avgResult>>

\* walk_tree at a chance event: the call walk_tree(h.sample_chance, ...)
VisitChance ==
    /\ Walking
    /\ Top.at = "enter"
    /\ Top.h.kind = "history"
    /\ ~is_terminal(Top.h.seq)
    /\ is_chance(Top.h.seq)
    /\ stack' = Append(stack, Frame(MethodArg(Top.h.seq), Top.pi_i, Top.pi_neg_i))
    /\ UNCHANGED <<game, n_players, epochs, info_sets, factoryCalls, nextId, pc, err,
                   t, i, runs, global_step, tracked, checkpoints, saved, avgResult>>

\* walk_tree at a decision: I = self._get_info_set(h); v = 0; v_a = {}
VisitInfoSet ==
    /\ Walking
    /\ Top.at = "enter"
    /\ Top.h.kind = "history"
    /\ ~is_terminal(Top.h.seq)
    /\ ~is_chance(Top.h.seq)
    /\ LET r == get_info_set(info_sets, factoryCalls, nextId, Top.h.seq)
       IN  /\ info_sets' = r.info_sets
           /\ factoryCalls' = r.factoryCalls
           /\ nextId' = r.nextId
           /\ stack' = [stack EXCEPT ![Len(stack)] =
                            [@ EXCEPT !.at = "loop", !.I = r.returned, !.a = 1]]
    /\ UNCHANGED <<game, n_players, epochs, pc, err, t, i, runs, global_step,
                   tracked, checkpoints, saved, avgResult>>

\* one round of `for a in I.actions()` up to the recursive call
Recurse ==
    /\ Walking
    /\ Top.at = "loop"
    /\ Top.a <= Len(FrameInfoSet(Top).actions)
    /\ LET h == Top.h.seq
           I == FrameInfoSet(Top)
           a == I.actions[Top.a]
       IN  IF player(h) = 1
           THEN /\ stack' = Append(stack, Frame(HistoryArg(add(h, a)),
                                    Top.pi_i * I.cumulative_strategy[a], Top.pi_neg_i))
                /\ UNCHANGED <<pc, err, t, i>>
           ELSE IF player(h) = 2
           THEN /\ stack' = Append(stack, Frame(HistoryArg(add(h, a)),
                                    Top.pi_i, Top.pi_neg_i * I.cumulative_strategy[a]))
                /\ UNCHANGED <<pc, err, t, i>>
           \* neither branch assigned v_a[a]: `v += v_a[a] * ...` fails
           ELSE Raise("KeyError")
    /\ UNCHANGED <<game, n_players, epochs, info_sets, factoryCalls, nextId, runs,
                   global_step, tracked, checkpoints, saved, avgResult>>

\* the test `h.player() == i` taken as true at every node
updates_always(h, p) == TRUE

\* the test `h.player() == i` that guards the update of I
updates(h, p) == player(h) = p

\* after the loop at a node of another player: return v
ReturnValue ==
    /\ Walking
    /\ Top.at = "loop"
    /\ Top.a > Len(FrameInfoSet(Top).actions)
    /\ ~updates(Top.h.seq, i)
    /\ Return(Top.v)
    /\ UNCHANGED <<game, n_players, epochs, info_sets, factoryCalls, nextId, runs,
                   global_step, tracked, checkpoints, saved, avgResult>>

\* after the loop at a node of the updating player: the first round of the
\* update loop adds to I.regret[a] and then fails on the call
\* I.cumulative_strategy(a) of a dict, before I.strategy[a] is stored
UpdateInfoSet ==
    /\ Walking
    /\ Top.at = "loop"
    /\ Top.a > Len(FrameInfoSet(Top).actions)
    /\ updates(Top.h.seq, i)
    /\ LET I == FrameInfoSet(Top)
           a == I.actions[1]
       IN  info_sets' = [info_sets EXCEPT ![I.key].regret[a] =
                            @ + Top.pi_neg_i * (Top.v_a[1] - Top.v)]
    /\ Raise("TypeError")
    /\ UNCHANGED <<game, n_players, epochs, factoryCalls, nextId, runs,
                   global_step, tracked, checkpoints, saved, avgResult>>

(***************************************************************************)
(* iterate                                                                  *)
(***************************************************************************)
\* save_checkpoint() every 1000 iterations
CheckpointEvery == 1000

\* InfoSetTracker.__call__: what is tracked for every InfoSet
Track(store) ==
    [k \in DOMAIN store |->
        [strategy |-> store[k].strategy,
         average_strategy |-> get_average_strategy(store[k]),
         regret |-> store[k].regret]]

\* a call of iterate() up to its first walk, on a new CFR object or on one
\* whose earlier iterate() returned or raised; the caller keeps no dictionary
\* of an earlier to_dict() across training
Iterate ==
    /\ pc \in {"idle", "done", "crashed"}
    /\ runs < MaxRuns
    /\ runs' = runs + 1
    /\ err' = "none"
    /\ t' = 0
    /\ i' = 0
    /\ saved' = <<>>
    /\ IF epochs > 0
       THEN pc' = "walk" /\ stack' = <<RootFrame>>
       ELSE pc' = "done" /\ stack' = <<>>
    /\ UNCHANGED <<game, n_players, epochs, info_sets, factoryCalls, nextId,
                   global_step, tracked, checkpoints, avgResult>>

\* the end of an iteration: tracker.add_global_step(), self.tracker(info_sets),
\* the checkpoint, and the next iteration's first walk or the end of iterate
Observe ==
    /\ pc = "observe"
    /\ global_step' = global_step + 1
    /\ tracked' = Track(info_sets)
    /\ checkpoints' = IF (t + 1) % CheckpointEvery = 0 THEN checkpoints + 1 ELSE checkpoints
    /\ t' = t + 1
    /\ i' = 0
    /\ IF t + 1 < epochs
       THEN pc' = "walk" /\ stack' = <<RootFrame>>
       ELSE pc' = "done" /\ stack' = <<>>
    /\ UNCHANGED <<game, n_players, epochs, info_sets, factoryCalls, nextId, err,
                   runs, saved, avgResult>>

(***************************************************************************)
(* The caller's use of an InfoSet outside iterate                           *)
(***************************************************************************)
Resting == pc \in {"idle", "done", "crashed"}

\* d = I.to_dict(); strategy is what I.strategy was at that moment
Save(k) ==
    /\ Resting
    /\ saved' = <<[dict |-> to_dict(info_sets[k]), strategy |-> info_sets[k].strategy]>>
    /\ UNCHANGED <<game, n_players, epochs, info_sets, factoryCalls, nextId, pc, err,
                   t, i, stack, runs, global_step, tracked, checkpoints, avgResult>>

\* I.load_dict(d) of the dictionary held, into the InfoSet of its key
LoadSaved(k) ==
    /\ Resting
    /\ saved # <<>>
    /\ saved[1].dict.key = k
    /\ info_sets' = [info_sets EXCEPT ![k] = load_dict(@, saved[1].dict)]
    /\ UNCHANGED <<game, n_players, epochs, factoryCalls, nextId, pc, err,
                   t, i, stack, runs, global_step, tracked, checkpoints, saved,
                   avgResult>>

\* the dictionaries of a checkpoint for an InfoSet with the actions acts
Dicts(key, acts) ==
    [key : {key},
     regret : [ToSet(acts) -> -MaxRegret..MaxRegret],
     average_strategy : [ToSet(acts) -> 0..MaxCum]]

\* I.load_dict(data) of a dictionary read from a checkpoint
LoadData(k) ==
    /\ Resting
    /\ \E data \in Dicts(k, info_sets[k].actions) :
          info_sets' = [info_sets EXCEPT ![k] = load_dict(@, data)]
    /\ UNCHANGED <<game, n_players, epochs, factoryCalls, nextId, pc, err,
                   t, i, stack, runs, global_step, tracked, checkpoints, saved,
                   avgResult>>

\* I.get_average_strategy()
QueryAverage(k) ==
    /\ Resting
    /\ avgResult' = <<[key |-> k, value |-> get_average_strategy(info_sets[k])]>>
    /\ UNCHANGED <<game, n_players, epochs, info_sets, factoryCalls, nextId, pc, err,
                   t, i, stack, runs, global_step, tracked, checkpoints, saved>>

(***************************************************************************)
(* Specifications                                                           *)
(***************************************************************************)
\* a CFR object right after __init__, for some game and configuration
Init ==
    /\ game \in Games
    /\ n_players \in 1..MaxPlayers
    /\ epochs \in 0..MaxEpochs
    /\ info_sets = <<>>
    /\ factoryCalls = <<>>
    /\ nextId = 0
    /\ pc = "idle"
    /\ err = "none"
    /\ t = 0
    /\ i = 0
    /\ stack = <<>>
    /\ runs = 0
    /\ global_step = 0
    /\ tracked = <<>>
    /\ checkpoints = 0
    /\ saved = <<>>
    /\ avgResult = <<>>

Next ==
    \/ Iterate
    \/ VisitNonHistory
    \/ VisitTerminal
    \/ VisitChance
    \/ VisitInfoSet
    \/ Recurse
    \/ ReturnValue
    \/ UpdateInfoSet
    \/ Observe
    \/ \E k \in DOMAIN info_sets : Save(k)
    \/ \E k \in DOMAIN info_sets : LoadSaved(k)

\* a training run, with to_dict / load_dict round trips between iterate calls
Spec == Init /\ [][Next]_vars

\* one InfoSet right after new_info_set(), outside any training run
InitInfoSet ==
    /\ game \in {g \in Games : /\ Len(g.layers) = 1 /\ g.layers[1] = 1
                            /\ g.perfect /\ g.payoff["p"] = 1}
    /\ n_players = MaxPlayers
    /\ epochs = 1
    /\ info_sets = Put(<<>>, info_set_key(create_new_history), new_info_set(create_new_history, 0))
    /\ factoryCalls = Put(<<>>, info_set_key(create_new_history), 1)
    /\ nextId = 1
    /\ pc = "idle"
    /\ err = "none"
    /\ t = 0
    /\ i = 0
    /\ stack = <<>>
    /\ runs = 0
    /\ global_step = 0
    /\ tracked = <<>>
    /\ checkpoints = 0
    /\ saved = <<>>
    /\ avgResult = <<>>

NextInfoSet ==
    \/ \E k \in DOMAIN info_sets : LoadData(k)
    \/ \E k \in DOMAIN info_sets : QueryAverage(k)

\* load_dict and get_average_strategy on every dictionary within the bounds
SpecInfoSet == InitInfoSet /\ [][NextInfoSet]_vars

(***************************************************************************)
(* Properties                                                               *)
(***************************************************************************)
IntRat(x) == Frac(x, 1)

RatSub(r, s) == RatAdd(r, RatMulInt(-1, s))

\* a dictionary of rationals that is a probability distribution over acts
IsDistribution(d, acts) ==
    /\ DOMAIN d = ToSet(acts)
    /\ \A a \in DOMAIN d : d[a].num >= 0 /\ d[a].den > 0
    /\ RatSum(d) = RatOne

\* the sum of f over the actions of the list acts, one by one
RECURSIVE SumOver(_, _)
SumOver(f, acts) ==
    IF acts = <<>> THEN 0 ELSE f[Head(acts)] + SumOver(f, Tail(acts))

\* r is the quotient n / d
IsQuotient(r, n, d) == r.den > 0 /\ r.num * d = n * r.den

\* C1: in every state of a training run (InfoSets just created, updated by a
\* node visit of walk_tree, or reloaded by load_dict) the strategy of every
\* InfoSet of the store is non-negative and sums to exactly 1 over its actions.
C1_StrategyIsDistribution ==
    \A k \in DOMAIN info_sets :
        IsDistribution(info_sets[k].strategy, info_sets[k].actions)

\* an InfoSet with two actions that a walk updated and load_dict reloaded:
\* regret is positive for one action only and the strategy is pure
C1_Witness ==
    \E k \in DOMAIN info_sets :
        /\ Len(info_sets[k].actions) = 2
        /\ \E a \in DOMAIN info_sets[k].regret :
              info_sets[k].regret[a] > 0 /\ info_sets[k].strategy[a] = RatOne

\* C2: the strategy calculate_strategy leaves is max(regret[a], 0) / S when
\* S = sum of max(regret[a], 0) is positive and 1 / |actions| otherwise, for
\* every regret map within the bounds: a function of regret alone.
C2_RegretMatching ==
    \A k \in DOMAIN info_sets :
        LET I == info_sets[k]
            positive == [a \in ToSet(I.actions) |->
                            IF I.regret[a] < 0 THEN 0 ELSE I.regret[a]]
            S == SumOver(positive, I.actions)
        IN  /\ DOMAIN I.strategy = ToSet(I.actions)
            /\ \A a \in ToSet(I.actions) :
                  IF S > 0
                  THEN IsQuotient(I.strategy[a], positive[a], S)
                  ELSE IsQuotient(I.strategy[a], 1, Len(I.actions))

\* regret negative for one action and positive for the other
C2_Witness ==
    \E k \in DOMAIN info_sets :
        /\ info_sets[k].regret = [a \in {"p", "b"} |-> IF a = "p" THEN -1 ELSE 2]
        /\ info_sets[k].strategy["b"] = RatOne

\* C3: get_average_strategy returns cumulativeStrategy[a] / sum for every
\* action when the sum is positive and 1 / |actions| when it is zero; the
\* result is a probability distribution and the InfoSet is left as it was.
C3_AverageStrategy ==
    [][avgResult' # avgResult =>
        /\ info_sets' = info_sets
        /\ LET r == avgResult'[1]
               I == info_sets[r.key]
               S == SumOver(I.cumulative_strategy, I.actions)
           IN  /\ IsDistribution(r.value, I.actions)
               /\ \A a \in ToSet(I.actions) :
                     IF S > 0
                     THEN IsQuotient(r.value[a], I.cumulative_strategy[a], S)
                     ELSE IsQuotient(r.value[a], 1, Len(I.actions))]_vars

\* get_average_strategy has returned a strategy that is not uniform, for the
\* cumulative strategy the InfoSet holds now
C3_Witness ==
    /\ avgResult # <<>>
    /\ avgResult[1].value = get_average_strategy(info_sets[avgResult[1].key])
    /\ \E a \in DOMAIN avgResult[1].value : avgResult[1].value[a] = RatZero

\* C4: the store holds one InfoSet per key: a key enters the store with one
\* new_info_set() call, later calls for the key return the stored instance
\* without a new_info_set() call, and no entry is removed or replaced.
C4_OneInfoSetPerKey ==
    [][/\ \A k \in DOMAIN info_sets :
             /\ k \in DOMAIN info_sets'
             /\ info_sets'[k].id = info_sets[k].id
             /\ factoryCalls'[k] = factoryCalls[k]
       /\ \A k \in DOMAIN info_sets' :
             /\ factoryCalls'[k] = 1
             /\ info_sets'[k].key = k
             /\ \A j \in DOMAIN info_sets' :
                   info_sets'[j].id = info_sets'[k].id => j = k
       /\ \A n \in 1..Len(stack') :
             stack'[n].at = "loop" =>
                stack'[n].I = info_sets'[info_set_key(stack'[n].h.seq)].id]_vars

\* the walk of player 1 has looked up the root's key, which the walk of
\* player 0 had entered into the store
C4_Witness ==
    /\ pc = "walk"
    /\ i = 1
    /\ Len(stack) = 1
    /\ stack[1].at = "loop"
    /\ factoryCalls[info_set_key(create_new_history)] = 1
    /\ stack[1].I = info_sets[info_set_key(create_new_history)].id

\* C5: load_dict of the dictionary to_dict returned, into the InfoSet of its
\* key, reproduces regret and cumulative_strategy and leaves the strategy the
\* InfoSet held when it was saved.
C5_RoundTrip ==
    [][\A k \in DOMAIN info_sets :
          LoadSaved(k) =>
             /\ info_sets'[k].regret = saved[1].dict.regret
             /\ info_sets'[k].cumulative_strategy = saved[1].dict.average_strategy
             /\ info_sets'[k].strategy = saved[1].strategy]_vars

\* walk_tree is about to recurse from a decision node
AtRecursion ==
    /\ Walking
    /\ Top.at = "loop"
    /\ Top.a <= Len(FrameInfoSet(Top).actions)

\* C6: at a decision node walk_tree recurses into history + a with the
\* acting player's own reach probability multiplied by I.strategy[a] and the
\* other players' reach probabilities unchanged (pi_i is the updating
\* player's reach probability, pi_neg_i the product of the others').
C6_ReachByCurrentStrategy ==
    [][AtRecursion =>
        LET f == Top
            I == FrameInfoSet(f)
            a == I.actions[f.a]
        IN  /\ Len(stack') = Len(stack) + 1
            /\ stack'[Len(stack')].h = HistoryArg(add(f.h.seq, a))
            /\ IF player(f.h.seq) = i
               THEN /\ IntRat(stack'[Len(stack')].pi_i) = RatMulInt(f.pi_i, I.strategy[a])
                    /\ stack'[Len(stack')].pi_neg_i = f.pi_neg_i
               ELSE /\ stack'[Len(stack')].pi_i = f.pi_i
                    /\ IntRat(stack'[Len(stack')].pi_neg_i) = RatMulInt(f.pi_neg_i, I.strategy[a])]_vars

\* walk_tree has left the action loop at a node of the updating player
AtUpdate ==
    /\ Walking
    /\ Top.at = "loop"
    /\ Top.a > Len(FrameInfoSet(Top).actions)
    /\ player(Top.h.seq) = i

\* the node value: the sum over the actions of I.strategy[a] * v_a[a]
NodeValue(I, v_a) ==
    RatSum([n \in 1..Len(I.actions) |-> RatMulInt(v_a[n], I.strategy[I.actions[n]])])

\* C7: at a node of the updating player walk_tree adds to I.regret[a], for
\* every action a, pi_neg_i * (v_a[a] - v), where v is the sum of
\* I.strategy[a] * v_a[a] under the strategy held before the update, and the
\* call returns v.
C7_RegretUpdate ==
    [][AtUpdate =>
        LET f == Top
            I == FrameInfoSet(f)
            v == NodeValue(I, f.v_a)
        IN  /\ \A n \in 1..Len(I.actions) :
                  IntRat(info_sets'[I.key].regret[I.actions[n]] - I.regret[I.actions[n]])
                    = RatMulInt(f.pi_neg_i, RatSub(IntRat(f.v_a[n]), v))
            /\ pc' # "crashed"]_vars

\* C8: at a node of the updating player walk_tree adds pi_i * I.strategy[a]
\* to I.cumulative_strategy[a] for every action a.
C8_CumulativeStrategyUpdate ==
    [][AtUpdate =>
        LET f == Top
            I == FrameInfoSet(f)
        IN  \A a \in ToSet(I.actions) :
               RatSub(IntRat(info_sets'[I.key].cumulative_strategy[a]),
                      IntRat(I.cumulative_strategy[a]))
                 = RatMulInt(f.pi_i, I.strategy[a])]_vars

\* C9: a step of a walk for updating player i changes the regret, the
\* cumulative strategy or the strategy of an InfoSet only at a decision node
\* whose acting player is i and whose InfoSet it is; at any other node the
\* store at most gains a new entry.
C9_OnlyUpdatingPlayersInfoSets ==
    [][pc = "walk" =>
        \A k \in DOMAIN info_sets :
           /\ k \in DOMAIN info_sets'
           /\ info_sets'[k] # info_sets[k] =>
                 /\ Top.h.kind = "history"
                 /\ ~is_terminal(Top.h.seq)
                 /\ ~is_chance(Top.h.seq)
                 /\ player(Top.h.seq) = i
                 /\ info_set_key(Top.h.seq) = k]_vars

\* a decision node of a player other than the updating one has been visited
\* to the end of its action loop, and its InfoSet is as new_info_set() left it
C9_Witness ==
    /\ Walking
    /\ Top.at = "loop"
    /\ Top.a > Len(FrameInfoSet(Top).actions)
    /\ player(Top.h.seq) # i
    /\ FrameInfoSet(Top) = new_info_set(Top.h.seq, FrameInfoSet(Top).id)

\* walk_tree has reached a history whose next step is a chance event
AtChance ==
    /\ Walking
    /\ Top.at = "enter"
    /\ Top.h.kind = "history"
    /\ ~is_terminal(Top.h.seq)
    /\ is_chance(Top.h.seq)

\* C10: at a chance event walk_tree recurses into the history extended by
\* the sampled action, a history value, with both reach probabilities
\* unchanged.
C10_ChanceRecursion ==
    [][AtChance =>
        /\ Len(stack') = Len(stack) + 1
        /\ stack'[Len(stack')].h.kind = "history"
        /\ Len(stack'[Len(stack')].h.seq) = Len(Top.h.seq) + 1
        /\ SubSeq(stack'[Len(stack')].h.seq, 1, Len(Top.h.seq)) = Top.h.seq
        /\ stack'[Len(stack')].pi_i = Top.pi_i
        /\ stack'[Len(stack')].pi_neg_i = Top.pi_neg_i]_vars

\* a step of iterate that is not inside a walk: it starts a walk, runs the
\* Observer or ends iterate
IterationOrder ==
    /\ global_step' # global_step =>
          /\ pc = "observe"
          /\ i = n_players - 1
          /\ stack = <<>>
          /\ global_step' = global_step + 1
          /\ t' = t + 1
          /\ info_sets' = info_sets
          /\ tracked' = Track(info_sets)
    /\ (pc' = "walk" /\ (pc # "walk" \/ i' # i)) =>
          /\ stack' = <<RootFrame>>
          /\ info_sets' = info_sets
          /\ IF pc = "walk" THEN i' = i + 1 /\ t' = t ELSE i' = 0
          /\ i' < n_players
          /\ t' < epochs
    /\ (pc' = "observe" /\ pc # "observe") => i = n_players - 1 /\ t' = t
    /\ (pc' = "done" /\ pc # "done") => t' = epochs

\* C11: iterate runs epochs iterations in order, each with one completed
\* walk per player 0 .. n_players-1 from a fresh history with reach
\* probabilities 1 on the same store, followed by exactly one Observer call
\* on the store as those walks left it; then iterate finishes.
C11_IterateRunsAllEpochs ==
    [][/\ IterationOrder
       /\ pc' # "crashed"
       /\ (pc' \in {"done", "crashed"} /\ pc \notin {"done", "crashed"}) =>
             /\ pc' = "done"
             /\ t' = epochs]_vars

\* the part of C11 that is about the order of walks and Observer calls alone
C11_OrderOnly == [][IterationOrder]_vars

\* iterate has finished after running the Observer epochs > 0 times
C11_OrderWitness ==
    /\ pc = "done"
    /\ epochs = MaxEpochs
    /\ global_step = runs * epochs
    /\ DOMAIN tracked # {}

====
